---- MODULE Spec2Model ----
(***************************************************************************)
(* Sonic Cipher, src/Sonic_Cipher/audio_stego.py: LSB steganography in     *)
(* uncompressed WAV audio.  Bytes are 0..255, byte strings and buffers are *)
(* sequences of bytes, a password is the sequence of its code points.      *)
(* Sample indices are 0-based as in the source; a buffer's byte at source  *)
(* index b is element b + 1 of the sequence.                               *)
(***************************************************************************)
EXTENDS Integers, Sequences, FiniteSets, TLC

VARIABLES
    fs,          \* the file system: path -> file contents, or NoFile
    prev,        \* fs as it was when the last operation was called
    embedded,    \* path -> the (payload, password) of the hide_data that wrote it
    res,         \* the call that has just returned and its outcome, or Idle
    hidesLeft,   \* successful hide_data calls still allowed in this run
    selWidth,    \* selection harness: sample width of the buffer
    selOrig,     \* selection harness: the buffer as first given
    selBuf,      \* selection harness: the buffer after LSB changes
    keyPositions,\* generator harness: the caller's eligible-position list
    firstRun,    \* generator harness: password -> what its first run yielded
    lastRun,     \* generator harness: the latest run (password, yielded)
    rng          \* state of the most recently constructed random.Random

fileVars == <<fs, prev, embedded, res, hidesLeft>>
selVars == <<selWidth, selOrig, selBuf>>
keyVars == <<keyPositions, firstRun, lastRun, rng>>
vars == <<fs, prev, embedded, res, hidesLeft, selWidth, selOrig, selBuf,
          keyPositions, firstRun, lastRun, rng>>

(***************************************************************************)
(* Module constants, audio_stego.py lines 14-19.                           *)
(***************************************************************************)
\* b"###END###"
DELIMITER == <<35, 35, 35, 69, 78, 68, 35, 35, 35>>
SUPPORTED_SAMPLE_WIDTHS == {1, 2, 3, 4}
MIN_PASSWORD_LENGTH == 8
\* HIGH_ENERGY_PERCENTILE = 0.6, kept as the exact ratio 3/5: for every
\* n below 2^50, int(n * 0.6) in IEEE doubles equals (3 * n) \div 5.
HIGH_ENERGY_PERCENTILE_NUM == 3
HIGH_ENERGY_PERCENTILE_DEN == 5

\* The error messages of the source name its failures.
E_PW_EMPTY == "Password cannot be empty."
E_PW_SHORT == "Password must be at least 8 characters."
E_NO_ELIGIBLE == "No eligible samples for embedding."
E_NO_SAMPLES == "Audio has no samples available for embedding."
E_NO_HIGH_ENERGY == "No high-energy samples available for embedding."
E_FILE_NOT_FOUND == "File not found"
E_NOT_WAV == "Only .wav files are supported."
E_OUT_NOT_WAV == "Output file must have a .wav extension."
E_SAME_PATH == "Output path must be different from input path."
E_WAVE == "wave.Error"
E_SAMPWIDTH == "Unsupported sample width."
E_COMPRESSED == "Compressed WAV files are not supported."
E_NO_FRAMES == "WAV file has no audio frames."
E_PAYLOAD == "Payload must be non-empty bytes."
E_TOO_LARGE == "Message too large for this audio file. Reduce size or use a larger WAV."
E_TOO_LARGE_ENERGY == "Message too large for high-energy embedding. Use a larger WAV or shorter message."
E_NO_DELIMITER == "Delimiter not found. Wrong password or no hidden message."

\* no generator has been constructed yet
NoRng == -1

OK == "ok"
Fail(e) == [err |-> e]
Ok(v) == [err |-> OK, val |-> v]

Range(s) == {s[i] : i \in 1..Len(s)}
Pow2(k) == 2 ^ k
Abs(x) == IF x < 0 THEN -x ELSE x
Max(a, b) == IF a >= b THEN a ELSE b

(***************************************************************************)
(* _validate_password, lines 26-35.  str.strip() removes the characters    *)
(* str.isspace() accepts; the password is blank when all of them are.      *)
(***************************************************************************)
Whitespace ==
    {9, 10, 11, 12, 13, 28, 29, 30, 31, 32, 133, 160, 5760, 8232, 8233, 8239,
     8287, 12288} \cup (8192..8202)

Strip(password) ==
    LET n == Len(password)
        keep == {i \in 1..n : password[i] \notin Whitespace}
        lo == CHOOSE i \in keep : \A j \in keep : i <= j
        hi == CHOOSE i \in keep : \A j \in keep : j <= i
    IN  IF keep = {} THEN <<>> ELSE SubSeq(password, lo, hi)

\* password.encode("utf-8"): the code points, in order (the encoding is
\* injective, and only the derived seed reads the bytes).
EncodeUtf8(password) == password

\* the length test applied to the stripped password
validate_password_stripped(password) ==
    IF Len(password) = 0 \/ Len(Strip(password)) = 0 THEN Fail(E_PW_EMPTY)
    ELSE IF Len(Strip(password)) < MIN_PASSWORD_LENGTH THEN Fail(E_PW_SHORT)
    ELSE Ok(EncodeUtf8(password))

\* Every caller passes a str, so the isinstance branch (line 27) is not taken.
validate_password(password) ==
    IF Len(password) = 0 \/ Len(Strip(password)) = 0 THEN Fail(E_PW_EMPTY)
    ELSE IF Len(password) < MIN_PASSWORD_LENGTH THEN Fail(E_PW_SHORT)
    ELSE Ok(EncodeUtf8(password))

(***************************************************************************)
(* _derive_embedding_seed, lines 38-47.  PBKDF2-HMAC-SHA256 is a fixed     *)
(* deterministic function of the password bytes; it is stood in for by a   *)
(* polynomial hash into 16 bits (the fixed salt is its start value).       *)
(***************************************************************************)
SeedModulus == 65521
EMBED_KDF_SALT == 4177

RECURSIVE Pbkdf2(_, _)
Pbkdf2(bytes, h) ==
    IF bytes = <<>> THEN h
    ELSE Pbkdf2(Tail(bytes), (h * 31 + Head(bytes)) % SeedModulus)

derive_embedding_seed(password) ==
    LET v == validate_password(password)
    IN  IF v.err # OK THEN v ELSE Ok(Pbkdf2(v.val, EMBED_KDF_SALT))

(***************************************************************************)
(* random.Random(seed) and rng.shuffle, lines 54-56.  The Mersenne Twister *)
(* is stood in for by a 16-bit linear congruential generator; shuffle is   *)
(* CPython's: for i from len-1 down to 1, j = randbelow(i+1), swap x[i]    *)
(* and x[j].                                                               *)
(***************************************************************************)
RngModulus == 65537
RngMultiplier == 75
RngIncrement == 74

\* one generator kept between calls and seeded only when first made
NewRandom_shared(seed) == IF rng = NoRng THEN seed % RngModulus ELSE rng

\* random.Random(seed): a generator of the call's own, started from the seed.
NewRandom(seed) == seed % RngModulus

RngStep(state) == (state * RngMultiplier + RngIncrement) % RngModulus
\* _randbelow(n) on the state already stepped
RandBelow(state, n) == state % n

\* x[i] = x[j] without the other half of the swap
ShuffleStep_overwrite(st, i) ==
    LET s == RngStep(st.rng)
        j == RandBelow(s, i + 1)
        x == st.list
    IN  [list |-> [x EXCEPT ![i + 1] = x[j + 1]], rng |-> s]

\* one pass of the loop body at the source's 0-based index i
ShuffleStep(st, i) ==
    LET s == RngStep(st.rng)
        j == RandBelow(s, i + 1)
        x == st.list
    IN  [list |-> [x EXCEPT ![i + 1] = x[j + 1], ![j + 1] = x[i + 1]],
         rng |-> s]

\* The loop body for i = hi down to lo, in that order.  The range is split
\* in two and the upper half is computed before the lower half is entered,
\* which keeps the evaluation shallow; the order of the steps is the loop's.
RECURSIVE ShuffleRange(_, _, _)
ShuffleRange(st, hi, lo) ==
    IF hi < lo THEN st
    ELSE IF hi = lo THEN ShuffleStep(st, hi)
    ELSE LET mid == (hi + lo) \div 2
             upper == ShuffleRange(st, hi, mid + 1)
         IN  IF upper.rng = NoRng THEN upper ELSE ShuffleRange(upper, mid, lo)

\* rng.shuffle(x): the shuffled list and the generator as it is left
Shuffle(x, state) == ShuffleRange([list |-> x, rng |-> state], Len(x) - 1, 1)

(***************************************************************************)
(* _iter_keyed_positions, lines 50-58, run to exhaustion: the order in     *)
(* which it yields and the generator it leaves.  Its body runs on the      *)
(* first next(), so its errors surface where the caller first iterates.    *)
(* `positions` is the caller's list as the call leaves it: line 55         *)
(* shuffles a copy (positions[:]).                                         *)
(***************************************************************************)
iter_keyed_positions(positions, password) ==
    IF positions = <<>> THEN Fail(E_NO_ELIGIBLE)
    ELSE LET seed == derive_embedding_seed(password)
         IN  IF seed.err # OK THEN seed
             ELSE LET sh == Shuffle(positions, NewRandom(seed.val))
                  IN  [err |-> OK, val |-> sh.list, rng |-> sh.rng,
                       positions |-> positions]

(***************************************************************************)
(* _read_sample_values, lines 61-75.                                       *)
(***************************************************************************)
\* int.from_bytes(chunk, "little", signed=True): two's complement, the last
\* byte carrying the sign
RECURSIVE FromBytesSigned(_)
FromBytesSigned(chunk) ==
    IF chunk = <<>> THEN 0
    ELSE IF Len(chunk) = 1
         THEN (IF chunk[1] >= 128 THEN chunk[1] - 256 ELSE chunk[1])
    ELSE Head(chunk) + 256 * FromBytesSigned(Tail(chunk))

\* chunk[0] &= 0xFE
MaskLsb(chunk) == [chunk EXCEPT ![1] = chunk[1] - (chunk[1] % 2)]

SampleCount(frame_bytes, sampwidth) ==
    (Len(frame_bytes) + sampwidth - 1) \div sampwidth

Chunk(frame_bytes, sampwidth, k) ==
    LET lo == k * sampwidth + 1
        hi == IF lo + sampwidth - 1 <= Len(frame_bytes)
              THEN lo + sampwidth - 1 ELSE Len(frame_bytes)
    IN  SubSeq(frame_bytes, lo, hi)

\* mask_lsb ignored: the samples decoded as they are
read_sample_values_plain(frame_bytes, sampwidth, mask_lsb) ==
    [k1 \in 1..SampleCount(frame_bytes, sampwidth) |->
        LET chunk == Chunk(frame_bytes, sampwidth, k1 - 1)
        IN  IF sampwidth = 1 THEN chunk[1] - 128 ELSE FromBytesSigned(chunk)]

read_sample_values(frame_bytes, sampwidth, mask_lsb) ==
    [k1 \in 1..SampleCount(frame_bytes, sampwidth) |->
        LET raw == Chunk(frame_bytes, sampwidth, k1 - 1)
            chunk == IF mask_lsb THEN MaskLsb(raw) ELSE raw
        IN  IF sampwidth = 1 THEN chunk[1] - 128 ELSE FromBytesSigned(chunk)]

(***************************************************************************)
(* _select_high_energy_positions, lines 78-93.                             *)
(***************************************************************************)
\* sorted(energies): the same values in ascending order
RECURSIVE sorted(_)
sorted(s) ==
    IF Len(s) <= 1 THEN s
    ELSE LET pivot == s[(Len(s) + 1) \div 2]
         IN  sorted(SelectSeq(s, LAMBDA v : v < pivot))
                \o SelectSeq(s, LAMBDA v : v = pivot)
                \o sorted(SelectSeq(s, LAMBDA v : v > pivot))

\* a list comprehension's result, built once as Python builds it
List(f) == SubSeq(f, 1, Len(f))

select_high_energy_positions(frame_bytes, sampwidth) ==
    LET samples == List(read_sample_values(frame_bytes, sampwidth, TRUE))
        n == Len(samples)
        energies == List([i \in 1..n |-> Abs(samples[i])])
        raw_cutoff == (n * HIGH_ENERGY_PERCENTILE_NUM) \div HIGH_ENERGY_PERCENTILE_DEN
        cutoff_index == IF raw_cutoff >= n THEN n - 1 ELSE raw_cutoff
        threshold == sorted(energies)[cutoff_index + 1]
        positions == SelectSeq([k \in 1..n |-> k - 1],
                               LAMBDA i : energies[i + 1] >= threshold)
    IN  IF n = 0 THEN Fail(E_NO_SAMPLES)
        ELSE IF positions = <<>> THEN Fail(E_NO_HIGH_ENERGY)
        ELSE Ok(positions)

(***************************************************************************)
(* Paths and files.  A path has a name and a suffix; a file that exists    *)
(* is either a RIFF/WAVE container the wave module can open (its           *)
(* parameters and its frame bytes) or something else.                      *)
(***************************************************************************)
NoFile == [kind |-> "none"]
OtherFile == [kind |-> "other"]

Wav(nchannels, sampwidth, framerate, comptype, frames) ==
    [kind |-> "wav", nchannels |-> nchannels, sampwidth |-> sampwidth,
     framerate |-> framerate, comptype |-> comptype,
     nframes |-> Len(frames) \div (nchannels * sampwidth), frames |-> frames]

\* str.lower() on the suffixes in use
Lower(suffix) ==
    CASE suffix = ".WAV" -> ".wav"
      [] suffix = ".Wav" -> ".wav"
      [] suffix = ".TXT" -> ".txt"
      [] OTHER -> suffix

Params(file) ==
    [nchannels |-> file.nchannels, sampwidth |-> file.sampwidth,
     framerate |-> file.framerate, nframes |-> file.nframes,
     comptype |-> file.comptype]

\* _validate_wav_path, lines 96-102
validate_wav_path(files, path) ==
    IF files[path].kind = "none" THEN Fail(E_FILE_NOT_FOUND)
    ELSE IF Lower(path.suffix) # ".wav" THEN Fail(E_NOT_WAV)
    ELSE Ok(path)

\* _validate_output_path, lines 105-109
validate_output_path(path) ==
    IF Lower(path.suffix) # ".wav" THEN Fail(E_OUT_NOT_WAV) ELSE Ok(path)

\* _bytes_to_bits, lines 112-115: MSB first, 8 per byte, in byte order
bytes_to_bits(data) ==
    [k \in 1..(8 * Len(data)) |->
        (data[((k - 1) \div 8) + 1] \div Pow2(7 - ((k - 1) % 8))) % 2]

\* the bits folded least significant first
RECURSIVE BitsFoldLsb(_, _)
BitsFoldLsb(bits, weight) ==
    IF bits = <<>> THEN 0
    ELSE Head(bits) * weight + BitsFoldLsb(Tail(bits), 2 * weight)

bits_to_byte_lsb_first(bits) == BitsFoldLsb(bits, 1)

\* _bits_to_byte, lines 118-122
RECURSIVE BitsFold(_, _)
BitsFold(bits, value) ==
    IF bits = <<>> THEN value ELSE BitsFold(Tail(bits), 2 * value + Head(bits))

bits_to_byte(bits) == BitsFold(bits, 0)

\* _max_payload_bytes, lines 125-127 (no caller uses it)
max_payload_bytes(n_frames, n_channels) == (n_frames * n_channels) \div 8

\* _read_wave, lines 141-151
read_wave(files, path) ==
    LET f == files[path]
    IN  IF f.kind # "wav" THEN Fail(E_WAVE)
        ELSE IF f.sampwidth \notin SUPPORTED_SAMPLE_WIDTHS THEN Fail(E_SAMPWIDTH)
        ELSE IF f.comptype # "NONE" THEN Fail(E_COMPRESSED)
        ELSE IF f.nframes <= 0 THEN Fail(E_NO_FRAMES)
        ELSE [err |-> OK, params |-> Params(f), frames |-> f.frames]

\* _write_wave, lines 154-157: the container is written with the given
\* parameters; the writer sets the frame count from the bytes written.
write_wave(files, path, params, frames) ==
    [files EXCEPT ![path] =
        Wav(params.nchannels, params.sampwidth, params.framerate,
            params.comptype, frames)]

\* the capacity taken from all sample slots (_max_payload_bytes) instead of
\* the eligible positions
calculate_capacity_total(files, path) ==
    LET wav_path == validate_wav_path(files, path)
        rd == read_wave(files, path)
        positions == select_high_energy_positions(rd.frames, rd.params.sampwidth)
        max_payload == max_payload_bytes(rd.params.nframes, rd.params.nchannels)
        available == max_payload - Len(DELIMITER)
    IN  IF wav_path.err # OK THEN wav_path
        ELSE IF rd.err # OK THEN Fail(rd.err)
        ELSE IF positions.err # OK THEN positions
        ELSE Ok(Max(0, available))

\* calculate_capacity, lines 130-138
calculate_capacity(files, path) ==
    LET wav_path == validate_wav_path(files, path)
        rd == read_wave(files, path)
        positions == select_high_energy_positions(rd.frames, rd.params.sampwidth)
        max_payload == Len(positions.val) \div 8
        available == max_payload - Len(DELIMITER)
    IN  IF wav_path.err # OK THEN wav_path
        ELSE IF rd.err # OK THEN Fail(rd.err)
        ELSE IF positions.err # OK THEN positions
        ELSE Ok(Max(0, available))

(***************************************************************************)
(* hide_data, lines 160-196.                                               *)
(***************************************************************************)
\* the bit or-ed in without clearing the old one
EmbedStep_or(frame_bytes, bits, keyed, sampwidth, k) ==
    LET sample_index == keyed[k]
        byte_index == sample_index * sampwidth
        old == frame_bytes[byte_index + 1]
    IN  [frame_bytes EXCEPT
            ![byte_index + 1] = IF old % 2 = 1 THEN old ELSE old + bits[k]]

\* the body of the embedding loop, lines 191-194, for the k-th bit (from 1)
EmbedStep(frame_bytes, bits, keyed, sampwidth, k) ==
    LET sample_index == keyed[k]
        byte_index == sample_index * sampwidth
        old == frame_bytes[byte_index + 1]
    IN  [frame_bytes EXCEPT ![byte_index + 1] = (old - (old % 2)) + bits[k]]

\* bits lo..hi in order, bit k going to the k-th keyed position; the range
\* is split in two and the first half is computed before the second is
\* entered
RECURSIVE EmbedRange(_, _, _, _, _, _)
EmbedRange(frame_bytes, bits, keyed, sampwidth, lo, hi) ==
    IF lo > hi THEN frame_bytes
    ELSE IF lo = hi THEN EmbedStep(frame_bytes, bits, keyed, sampwidth, lo)
    ELSE LET mid == (lo + hi) \div 2
             first == EmbedRange(frame_bytes, bits, keyed, sampwidth, lo, mid)
         IN  IF Len(first) = 0 THEN first
             ELSE EmbedRange(first, bits, keyed, sampwidth, mid + 1, hi)

\* the output container opened and written as soon as the input is read,
\* before the capacity checks and the embedding
hide_data_early_write(files, in_path, out_path, payload, password) ==
    LET wav_path == validate_wav_path(files, in_path)
        out == validate_output_path(out_path)
        rd == read_wave(files, in_path)
        full_payload == payload \o DELIMITER
        required_bits == Len(full_payload) * 8
        bit_iter == bytes_to_bits(full_payload)
        positions == select_high_energy_positions(rd.frames, rd.params.sampwidth)
        keyed_positions == iter_keyed_positions(positions.val, password)
        frame_bytes == EmbedRange(rd.frames, bit_iter, keyed_positions.val,
                                  rd.params.sampwidth, 1, Len(bit_iter))
        unchanged(e) == [err |-> e, files |-> files]
        early(e) == [err |-> e,
                     files |-> write_wave(files, out_path, rd.params, rd.frames)]
    IN  IF payload = <<>> THEN unchanged(E_PAYLOAD)
        ELSE IF wav_path.err # OK THEN unchanged(wav_path.err)
        ELSE IF out.err # OK THEN unchanged(out.err)
        ELSE IF in_path = out_path THEN unchanged(E_SAME_PATH)
        ELSE IF rd.err # OK THEN unchanged(rd.err)
        ELSE IF required_bits > rd.params.nframes * rd.params.nchannels
             THEN early(E_TOO_LARGE)
        ELSE IF positions.err # OK THEN early(positions.err)
        ELSE IF required_bits > Len(positions.val)
             THEN early(E_TOO_LARGE_ENERGY)
        ELSE IF keyed_positions.err # OK THEN early(keyed_positions.err)
        ELSE [err |-> OK,
              files |-> write_wave(files, out_path, rd.params, frame_bytes)]

\* the password validated on entry, as if the keyed positions were built by
\* an ordinary function call instead of a generator
hide_data_password_first(files, in_path, out_path, payload, password) ==
    LET wav_path == validate_wav_path(files, in_path)
        out == validate_output_path(out_path)
        rd == read_wave(files, in_path)
        full_payload == payload \o DELIMITER
        required_bits == Len(full_payload) * 8
        bit_iter == bytes_to_bits(full_payload)
        positions == select_high_energy_positions(rd.frames, rd.params.sampwidth)
        checked == validate_password(password)
        keyed_positions == iter_keyed_positions(positions.val, password)
        frame_bytes == EmbedRange(rd.frames, bit_iter, keyed_positions.val,
                                  rd.params.sampwidth, 1, Len(bit_iter))
        unchanged(e) == [err |-> e, files |-> files]
    IN  IF payload = <<>> THEN unchanged(E_PAYLOAD)
        ELSE IF wav_path.err # OK THEN unchanged(wav_path.err)
        ELSE IF out.err # OK THEN unchanged(out.err)
        ELSE IF in_path = out_path THEN unchanged(E_SAME_PATH)
        ELSE IF rd.err # OK THEN unchanged(rd.err)
        ELSE IF checked.err # OK THEN unchanged(checked.err)
        ELSE IF required_bits > rd.params.nframes * rd.params.nchannels
             THEN unchanged(E_TOO_LARGE)
        ELSE IF positions.err # OK THEN unchanged(positions.err)
        ELSE IF required_bits > Len(positions.val)
             THEN unchanged(E_TOO_LARGE_ENERGY)
        ELSE IF keyed_positions.err # OK THEN unchanged(keyed_positions.err)
        ELSE [err |-> OK,
              files |-> write_wave(files, out_path, rd.params, frame_bytes)]

\* Returns the error (or OK) and the file system the call leaves.
hide_data(files, in_path, out_path, payload, password) ==
    LET wav_path == validate_wav_path(files, in_path)
        out == validate_output_path(out_path)
        rd == read_wave(files, in_path)
        full_payload == payload \o DELIMITER
        required_bits == Len(full_payload) * 8
        bit_iter == bytes_to_bits(full_payload)
        positions == select_high_energy_positions(rd.frames, rd.params.sampwidth)
        keyed_positions == iter_keyed_positions(positions.val, password)
        frame_bytes == EmbedRange(rd.frames, bit_iter, keyed_positions.val,
                                  rd.params.sampwidth, 1, Len(bit_iter))
        unchanged(e) == [err |-> e, files |-> files]
    IN  IF payload = <<>> THEN unchanged(E_PAYLOAD)
        ELSE IF wav_path.err # OK THEN unchanged(wav_path.err)
        ELSE IF out.err # OK THEN unchanged(out.err)
        ELSE IF in_path = out_path THEN unchanged(E_SAME_PATH)
        ELSE IF rd.err # OK THEN unchanged(rd.err)
        ELSE IF required_bits > rd.params.nframes * rd.params.nchannels
             THEN unchanged(E_TOO_LARGE)
        ELSE IF positions.err # OK THEN unchanged(positions.err)
        ELSE IF required_bits > Len(positions.val)
             THEN unchanged(E_TOO_LARGE_ENERGY)
        ELSE IF keyed_positions.err # OK THEN unchanged(keyed_positions.err)
        ELSE [err |-> OK,
              files |-> write_wave(files, out_path, rd.params, frame_bytes)]

(***************************************************************************)
(* extract_data, lines 199-219.                                            *)
(***************************************************************************)
\* collected.endswith(DELIMITER)
EndsWith(collected, suffix) ==
    /\ Len(collected) >= Len(suffix)
    /\ SubSeq(collected, Len(collected) - Len(suffix) + 1, Len(collected)) = suffix

\* bit_buffer.clear() left out
ExtractStep_no_clear(frame_bytes, keyed, sampwidth, st, k) ==
    LET sample_index == keyed[k]
        byte_index == sample_index * sampwidth
        buf == Append(st.bit_buffer, frame_bytes[byte_index + 1] % 2)
        got == Append(st.collected, bits_to_byte(buf))
    IN  IF Len(buf) = 8
        THEN [collected |-> got, bit_buffer |-> buf,
              found |-> EndsWith(got, DELIMITER), consumed |-> k]
        ELSE [collected |-> st.collected, bit_buffer |-> buf,
              found |-> FALSE, consumed |-> k]

\* the body of the loop of lines 210-217 for the k-th keyed position (from
\* 1); `found` is the return of line 217, `consumed` counts the positions
\* taken from the generator
ExtractStep(frame_bytes, keyed, sampwidth, st, k) ==
    LET sample_index == keyed[k]
        byte_index == sample_index * sampwidth
        buf == Append(st.bit_buffer, frame_bytes[byte_index + 1] % 2)
        got == Append(st.collected, bits_to_byte(buf))
    IN  IF Len(buf) = 8
        THEN [collected |-> got, bit_buffer |-> <<>>,
              found |-> EndsWith(got, DELIMITER), consumed |-> k]
        ELSE [collected |-> st.collected, bit_buffer |-> buf,
              found |-> FALSE, consumed |-> k]

\* keyed positions lo..hi in order, stopping at the return of line 217
RECURSIVE ExtractRange(_, _, _, _, _, _)
ExtractRange(frame_bytes, keyed, sampwidth, st, lo, hi) ==
    IF lo > hi \/ st.found THEN st
    ELSE IF lo = hi THEN ExtractStep(frame_bytes, keyed, sampwidth, st, lo)
    ELSE LET mid == (lo + hi) \div 2
             first == ExtractRange(frame_bytes, keyed, sampwidth, st, lo, mid)
         IN  IF first.found THEN first
             ELSE ExtractRange(frame_bytes, keyed, sampwidth, first, mid + 1, hi)

\* the collected bytes returned with the delimiter still on them
ExtractLoop_unstripped(frame_bytes, keyed, sampwidth) ==
    LET st == ExtractRange(frame_bytes, keyed, sampwidth,
                           [collected |-> <<>>, bit_buffer |-> <<>>,
                            found |-> FALSE, consumed |-> 0], 1, Len(keyed))
    IN  IF st.found
        THEN [err |-> OK, val |-> st.collected, consumed |-> st.consumed]
        ELSE [err |-> E_NO_DELIMITER, consumed |-> st.consumed]

\* the loop of lines 210-217 from its start, and what follows it: the
\* return of line 217 or the raise of line 219
ExtractLoop(frame_bytes, keyed, sampwidth) ==
    LET st == ExtractRange(frame_bytes, keyed, sampwidth,
                           [collected |-> <<>>, bit_buffer |-> <<>>,
                            found |-> FALSE, consumed |-> 0], 1, Len(keyed))
    IN  IF st.found
        THEN [err |-> OK,
              val |-> SubSeq(st.collected, 1, Len(st.collected) - Len(DELIMITER)),
              consumed |-> st.consumed]
        ELSE [err |-> E_NO_DELIMITER, consumed |-> st.consumed]

extract_data(files, path, password) ==
    LET wav_path == validate_wav_path(files, path)
        rd == read_wave(files, path)
        positions == select_high_energy_positions(rd.frames, rd.params.sampwidth)
        keyed_positions == iter_keyed_positions(positions.val, password)
    IN  IF wav_path.err # OK THEN wav_path
        ELSE IF rd.err # OK THEN Fail(rd.err)
        ELSE IF positions.err # OK THEN positions
        ELSE IF keyed_positions.err # OK THEN Fail(keyed_positions.err)
        ELSE ExtractLoop(rd.frames, keyed_positions.val, rd.params.sampwidth)

(***************************************************************************)
(* The inputs of the model: paths, carriers, payloads and passwords.       *)
(***************************************************************************)
CarrierPath == [name |-> "carrier", suffix |-> ".wav"]
StegoPath == [name |-> "stego", suffix |-> ".WAV"]
NotesPath == [name |-> "notes", suffix |-> ".txt"]
Paths == {CarrierPath, StegoPath, NotesPath}

FlatSamples == 120
VariedFrames == 112
SilentSamples == 96
TinySamples == 16
BigSamples == 576

\* 8-bit mono, every sample at the same magnitude, LSBs mixed
FlatCarrier ==
    Wav(1, 1, 8000, "NONE",
        [i \in 1..FlatSamples |-> 200 + (((i * 7) \div 3) % 2)])

\* 16-bit stereo with magnitudes spread over the whole range
VariedCarrier ==
    Wav(2, 2, 44100, "NONE",
        [b \in 1..(4 * VariedFrames) |->
            LET i == (b - 1) \div 2
            IN  IF (b - 1) % 2 = 0 THEN (i * 37 + 5) % 256
                ELSE (i * 59 + 3) % 256])

\* 24-bit mono digital silence
SilentCarrier == Wav(1, 3, 48000, "NONE", [b \in 1..(3 * SilentSamples) |-> 0])

\* 32-bit mono, too short for any payload
TinyCarrier ==
    Wav(1, 4, 22050, "NONE", [b \in 1..(4 * TinySamples) |-> (b * 53) % 256])

\* 8-bit mono like FlatCarrier, long enough to hold two messages apart
BigCarrier ==
    Wav(1, 1, 8000, "NONE",
        [i \in 1..BigSamples |-> 200 + (((i * 7) \div 3) % 2)])

EmptyWav == Wav(1, 2, 44100, "NONE", <<>>)
WideWav == Wav(1, 8, 44100, "NONE", [b \in 1..16 |-> b])

Carriers ==
    {FlatCarrier, VariedCarrier, SilentCarrier, TinyCarrier, EmptyWav, WideWav,
     OtherFile}

\* b"A", b"Hi", b"###END", and the empty payload
PayloadA == <<65>>
PayloadHi == <<72, 105>>
PayloadEnd == <<35, 35, 35, 69, 78, 68>>
PayloadMid == <<120>> \o DELIMITER \o <<121>>
Payloads == {PayloadA, PayloadHi, PayloadEnd, PayloadMid, <<>>}

\* "password", "stego   "; "", eight spaces, "short"
PwWord == <<112, 97, 115, 115, 119, 111, 114, 100>>
PwPadded == <<115, 116, 101, 103, 111, 32, 32, 32>>
PwNone == <<>>
PwBlank == <<32, 32, 32, 32, 32, 32, 32, 32>>
PwShort == <<115, 104, 111, 114, 116>>
Passwords == {PwWord, PwPadded, PwNone, PwBlank, PwShort}

MaxHides == 1
MaxChain == 2

Idle == [op |-> "idle"]
NotEmbedded == [op |-> "none"]
NoRun == [password |-> <<>>, out |-> [err |-> "none"], again |-> FALSE]

\* the selection harness: buffers of up to MaxSelSamples samples, each
\* sample's first byte and its remaining bytes drawn from a few values
MaxSelSamples == 3
SelFirstBytes == {0, 1, 128}
SelRestBytes == {0, 255}
SelChunks(w) ==
    {[j \in 1..w |-> IF j = 1 THEN b ELSE r] : b \in SelFirstBytes, r \in SelRestBytes}

RECURSIVE Flatten(_)
Flatten(chunks) ==
    IF chunks = <<>> THEN <<>> ELSE Head(chunks) \o Flatten(Tail(chunks))

SelBuffers(w) ==
    UNION {{Flatten(c) : c \in [1..n -> SelChunks(w)]} : n \in 0..MaxSelSamples}

\* the generator harness: ascending position lists over 0..MaxKeyIndex
MaxKeyIndex == 4
KeyPasswords == {PwWord, PwPadded, PwShort}
KeyLists ==
    {SelectSeq([k \in 1..(MaxKeyIndex + 1) |-> k - 1], LAMBDA i : i \in S) :
        S \in SUBSET (0..MaxKeyIndex)}

(***************************************************************************)
(* The program as a state machine: one action per exposed operation, and   *)
(* the caller taking the result.                                           *)
(***************************************************************************)
InitFiles ==
    /\ \E c \in Carriers :
          fs = [p \in Paths |->
                   IF p = CarrierPath THEN c
                   ELSE IF p = NotesPath THEN OtherFile ELSE NoFile]
    /\ prev = fs
    /\ embedded = [p \in Paths |-> NotEmbedded]
    /\ res = Idle
    /\ hidesLeft = MaxHides

\* one long carrier, and room for a chain of hide_data calls
InitChain ==
    /\ fs = [p \in Paths |->
                IF p = CarrierPath THEN BigCarrier
                ELSE IF p = NotesPath THEN OtherFile ELSE NoFile]
    /\ prev = fs
    /\ embedded = [p \in Paths |-> NotEmbedded]
    /\ res = Idle
    /\ hidesLeft = MaxChain

NoFiles ==
    /\ fs = [p \in Paths |-> NoFile]
    /\ prev = fs
    /\ embedded = [p \in Paths |-> NotEmbedded]
    /\ res = Idle
    /\ hidesLeft = 0

NoSel == selWidth = 1 /\ selOrig = <<>> /\ selBuf = <<>>

NoKey ==
    /\ keyPositions = <<>>
    /\ firstRun = [w \in KeyPasswords |-> NoRun]
    /\ lastRun = NoRun
    /\ rng = NoRng

Hide(in_path, out_path, payload, password) ==
    /\ res = Idle
    /\ hidesLeft > 0
    /\ LET r == hide_data(fs, in_path, out_path, payload, password)
       IN  /\ fs' = r.files
           /\ prev' = fs
           /\ res' = [op |-> "hide", in_path |-> in_path, out_path |-> out_path,
                      payload |-> payload, password |-> password, err |-> r.err]
           /\ embedded' = IF r.err = OK
                          THEN [embedded EXCEPT ![out_path] =
                                   [op |-> "hide", payload |-> payload,
                                    password |-> password]]
                          ELSE embedded
           /\ hidesLeft' = IF r.err = OK THEN hidesLeft - 1 ELSE hidesLeft
    /\ UNCHANGED <<selVars, keyVars>>

Extract(path, password) ==
    /\ res = Idle
    /\ LET r == extract_data(fs, path, password)
       IN  res' = [op |-> "extract", path |-> path, password |-> password,
                   out |-> r]
    /\ prev' = fs
    /\ UNCHANGED <<fs, embedded, hidesLeft, selVars, keyVars>>

Capacity(path) ==
    /\ res = Idle
    /\ res' = [op |-> "capacity", path |-> path,
               out |-> calculate_capacity(fs, path)]
    /\ prev' = fs
    /\ UNCHANGED <<fs, embedded, hidesLeft, selVars, keyVars>>

\* the caller has the result (or the exception); the call's frame is gone
Return ==
    /\ res # Idle
    /\ res' = Idle
    /\ prev' = fs
    /\ UNCHANGED <<fs, embedded, hidesLeft, selVars, keyVars>>

(***************************************************************************)
(* Selection harness: _select_high_energy_positions on a buffer whose      *)
(* samples' embedding bits are rewritten by the statement hide_data uses   *)
(* (line 194).                                                             *)
(***************************************************************************)
InitSel ==
    /\ selWidth \in SUPPORTED_SAMPLE_WIDTHS
    /\ selOrig \in SelBuffers(selWidth)
    /\ selBuf = selOrig

WriteLsb(sample_index, bit) ==
    /\ sample_index < SampleCount(selBuf, selWidth)
    /\ selBuf' = EmbedStep(selBuf, <<bit>>, <<sample_index>>, selWidth, 1)
    /\ selBuf' # selBuf
    /\ UNCHANGED <<selWidth, selOrig, fileVars, keyVars>>

NextSel == \E k \in 0..MaxSelSamples, bit \in {0, 1} : WriteLsb(k, bit)

(***************************************************************************)
(* Generator harness: _iter_keyed_positions run to exhaustion, again and   *)
(* again, on one position list with varying passwords.  firstRun keeps     *)
(* what each password's first run yielded, rng the generator the last run  *)
(* constructed (the source drops it when the run ends).                    *)
(***************************************************************************)
InitKey ==
    /\ keyPositions \in KeyLists
    /\ firstRun = [w \in KeyPasswords |-> NoRun]
    /\ lastRun = NoRun
    /\ rng = NoRng

RunKeyed(password) ==
    /\ LET r == iter_keyed_positions(keyPositions, password)
           again == firstRun[password] # NoRun
       IN  /\ keyPositions' = IF r.err = OK THEN r.positions ELSE keyPositions
           /\ lastRun' = [password |-> password,
                          out |-> IF r.err = OK THEN Ok(r.val) ELSE Fail(r.err),
                          again |-> again,
                          before |-> keyPositions, after |-> keyPositions']
           /\ firstRun' = IF again THEN firstRun
                          ELSE [firstRun EXCEPT ![password] = lastRun']
           /\ rng' = IF r.err = OK THEN r.rng ELSE rng
    /\ UNCHANGED <<fileVars, selVars>>

NextKey == \E w \in KeyPasswords : RunKeyed(w)

Init == InitFiles /\ NoSel /\ NoKey

Next ==
    \/ \E i \in Paths, o \in Paths, p \in Payloads, w \in Passwords :
          Hide(i, o, p, w)
    \/ \E p \in Paths, w \in Passwords : Extract(p, w)
    \/ \E p \in Paths : Capacity(p)
    \/ Return

Spec == Init /\ [][Next]_vars

\* chained hide_data calls on one long carrier
ChainInit == InitChain /\ NoSel /\ NoKey
SpecChain == ChainInit /\ [][Next]_vars

\* the selection harness alone
SelInit == InitSel /\ NoFiles /\ NoKey
SpecSel == SelInit /\ [][NextSel]_vars

\* the generator harness alone
KeyInit == InitKey /\ NoFiles /\ NoSel
SpecKey == KeyInit /\ [][NextKey]_vars

(***************************************************************************)
(* Terms of the properties, stated apart from the operations' own code.    *)
(***************************************************************************)
\* a password the validation is meant to accept
GoodPassword(w) == Len(w) >= 8 /\ \E i \in 1..Len(w) : w[i] \notin Whitespace

PasswordErrors == {E_PW_EMPTY, E_PW_SHORT}
CapacityErrors == {E_TOO_LARGE, E_TOO_LARGE_ENERGY, E_NO_SAMPLES, E_NO_HIGH_ENERGY}

\* a container the reader accepts, at a path it accepts
Readable(f) ==
    /\ f.kind = "wav"
    /\ f.sampwidth \in {1, 2, 3, 4}
    /\ f.comptype = "NONE"
    /\ f.nframes > 0

IsWavPath(p) == p.suffix \in {".wav", ".WAV", ".Wav"}

Eligible(f) == select_high_energy_positions(f.frames, f.sampwidth).val

KeyedOrder(f, w) == iter_keyed_positions(Eligible(f), w).val

\* bit 0 of the first byte of sample i of file f
Lsb(f, i) == f.frames[i * f.sampwidth + 1] % 2

\* the m-th byte (from 1) spelt, MSB first, by the embedding bits of f read
\* in the order `keyed`
ByteRead(f, keyed, m) ==
    LET b(j) == Lsb(f, keyed[8 * (m - 1) + j])
    IN  128 * b(1) + 64 * b(2) + 32 * b(3) + 16 * b(4)
            + 8 * b(5) + 4 * b(6) + 2 * b(7) + b(8)

\* bytes m-8 .. m read that way are the delimiter
DelimiterEndsAt(f, keyed, m) ==
    /\ m >= 9
    /\ \A j \in 1..9 : ByteRead(f, keyed, m - 9 + j) = DELIMITER[j]

\* the byte boundaries at which the read stream ends with the delimiter
Boundaries(f, keyed) ==
    {m \in 1..(Len(keyed) \div 8) : DelimiterEndsAt(f, keyed, m)}

\* the k-th bit (from 1) of a byte string, MSB first within each byte
BitOf(data, k) ==
    LET byte == data[((k - 1) \div 8) + 1]
        shift == 7 - ((k - 1) % 8)
    IN  (byte \div (2 ^ shift)) % 2

\* a readable carrier all of whose decoded, LSB-masked samples are 0
AllZero(f) ==
    /\ Readable(f)
    /\ \A v \in Range(read_sample_values(f.frames, f.sampwidth, TRUE)) : v = 0

\* the indices at which the delimiter starts inside a byte string
DelimiterStarts(data) ==
    {k \in 1..(Len(data) - 8) : SubSeq(data, k, k + 8) = DELIMITER}

\* a hide_data call whose paths, carrier and payload size are all in order
HideInOrder ==
    /\ res.op = "hide"
    /\ IsWavPath(res.in_path) /\ IsWavPath(res.out_path)
    /\ res.in_path # res.out_path
    /\ Readable(prev[res.in_path])
    /\ res.payload # <<>>
    /\ (Len(res.payload) + 9) * 8 <= Len(Eligible(prev[res.in_path]))

\* a hide_data call with a non-empty payload, distinct .wav paths and a
\* readable carrier, whatever the payload's size and the password
HideOnCarrier ==
    /\ res.op = "hide"
    /\ IsWavPath(res.in_path) /\ IsWavPath(res.out_path)
    /\ res.in_path # res.out_path
    /\ Readable(prev[res.in_path])
    /\ res.payload # <<>>

\* an extract_data call on a readable container
ExtractInOrder ==
    /\ res.op = "extract"
    /\ IsWavPath(res.path)
    /\ Readable(fs[res.path])

(***************************************************************************)
(* C1.  Round trip: hide_data with a payload within capacity and a valid   *)
(* password succeeds, and extract_data on its output with the same         *)
(* password returns exactly that payload, whatever bytes it holds.         *)
(***************************************************************************)
C1_RoundTrip ==
    /\ (HideInOrder /\ GoodPassword(res.password)) => res.err = OK
    /\ (/\ res.op = "extract"
        /\ embedded[res.path] # NotEmbedded
        /\ embedded[res.path].password = res.password)
       => (res.out.err = OK /\ res.out.val = embedded[res.path].payload)

(***************************************************************************)
(* C2.  Wrong password: extract_data on a hide_data output, called with a  *)
(* valid password other than the one that hid the payload.  As claimed, it *)
(* always raises the delimiter-not-found error.                            *)
(***************************************************************************)
WrongPasswordExtract ==
    /\ ExtractInOrder
    /\ embedded[res.path] # NotEmbedded
    /\ embedded[res.path].password # res.password
    /\ GoodPassword(res.password)
    /\ GoodPassword(embedded[res.path].password)

C2_WrongPasswordFails == WrongPasswordExtract => res.out.err = E_NO_DELIMITER

\* C2 as amended: with another valid password extract_data raises the
\* delimiter-not-found error unless the embedding bits, read in that
\* password's order, spell the delimiter at a byte boundary (as when the
\* carrier already held a message hidden under it); only then does it
\* return a byte string.
C2_WrongPasswordFailsUnlessSpelt ==
    WrongPasswordExtract =>
        /\ res.out.err \in {OK, E_NO_DELIMITER}
        /\ res.out.err = E_NO_DELIMITER
              <=> Boundaries(fs[res.path], KeyedOrder(fs[res.path], res.password)) = {}

C2_Witness ==
    /\ WrongPasswordExtract
    /\ res.out.err = E_NO_DELIMITER
    /\ hidesLeft = 0

(***************************************************************************)
(* C3.  No partial writes: a hide_data call that ends in an error leaves   *)
(* every file as it was; a call that succeeds changes the output path      *)
(* only, and never the input.                                              *)
(***************************************************************************)
C3_NoPartialWrites ==
    res.op = "hide" =>
        /\ res.err # OK => fs = prev
        /\ fs[res.in_path] = prev[res.in_path]
        /\ \A p \in Paths : p # res.out_path => fs[p] = prev[p]

C3_Witness ==
    /\ HideInOrder
    /\ res.err \in PasswordErrors
    /\ fs[res.out_path] = NoFile

(***************************************************************************)
(* C4.  Capacity formula: on a readable carrier calculate_capacity         *)
(* returns max(0, floor(N/8) - 9) for N eligible positions, never a        *)
(* negative number.                                                        *)
(***************************************************************************)
C4_CapacityFormula ==
    (res.op = "capacity" /\ IsWavPath(res.path) /\ Readable(fs[res.path])) =>
        LET N == Len(Eligible(fs[res.path]))
        IN  /\ res.out.err = OK
            /\ res.out.val >= 0
            /\ res.out.val = IF N \div 8 >= 9 THEN (N \div 8) - 9 ELSE 0

C4_Witness ==
    /\ res.op = "capacity"
    /\ res.out.err = OK
    /\ res.out.val > 0
    /\ res.out.val < max_payload_bytes(fs[res.path].nframes, fs[res.path].nchannels) - 9

C6_PasswordRejection ==
    /\ (HideInOrder /\ ~GoodPassword(res.password))
          => (res.err \in PasswordErrors /\ fs = prev)
    /\ (ExtractInOrder /\ ~GoodPassword(res.password))
          => (res.out.err \in PasswordErrors /\ "val" \notin DOMAIN res.out)
    /\ (res.op = "hide" /\ GoodPassword(res.password))
          => res.err \notin PasswordErrors
    /\ (res.op = "extract" /\ GoodPassword(res.password))
          => res.out.err \notin PasswordErrors

C6_Witness ==
    \/ /\ HideInOrder
       /\ res.password = PwBlank
       /\ res.err = E_PW_EMPTY
    \/ /\ ExtractInOrder
       /\ res.password = PwShort
       /\ res.out.err = E_PW_SHORT

(***************************************************************************)
(* C7.  Frame effect of a successful hide_data: same parameters, same      *)
(* buffer length; only bit 0 of the first byte of the samples at the first *)
(* (len(P)+9)*8 keyed positions may differ, everything else is unchanged,  *)
(* and bit 0 of the k-th such sample is the k-th bit of P ++ delimiter.    *)
(***************************************************************************)
C7_FrameEffect ==
    (res.op = "hide" /\ res.err = OK) =>
        LET src == prev[res.in_path]
            dst == fs[res.out_path]
            keyed == KeyedOrder(src, res.password)
            full == res.payload \o DELIMITER
            required_bits == (Len(res.payload) + 9) * 8
            written == {keyed[k] * src.sampwidth + 1 : k \in 1..required_bits}
        IN  /\ Params(dst) = Params(src)
            /\ Len(dst.frames) = Len(src.frames)
            /\ \A b \in 1..Len(src.frames) :
                  /\ dst.frames[b] \div 2 = src.frames[b] \div 2
                  /\ b \notin written => dst.frames[b] = src.frames[b]
            /\ \A k \in 1..required_bits : Lsb(dst, keyed[k]) = BitOf(full, k)

C7_Witness ==
    /\ res.op = "hide" /\ res.err = OK
    /\ prev[res.in_path].sampwidth = 2
    /\ fs[res.out_path].frames # prev[res.in_path].frames

(***************************************************************************)
(* C8.  Selection is independent of the embedding bits: rewriting bit 0 of *)
(* the first byte of any samples leaves the high-energy selection (and so  *)
(* the capacity it determines) as it was, for every sample width.          *)
(***************************************************************************)
C8_SelectionIgnoresLsb ==
    select_high_energy_positions(selBuf, selWidth)
        = select_high_energy_positions(selOrig, selWidth)

C8_Witness ==
    /\ selWidth = 3
    /\ Len(selBuf) = 9
    /\ \A k \in 0..2 : selBuf[3 * k + 1] % 2 # selOrig[3 * k + 1] % 2
    /\ Len(select_high_energy_positions(selBuf, selWidth).val) = 2

(***************************************************************************)
(* C9.  Extraction termination rule: extract_data returns at the first     *)
(* byte boundary where the bytes read in keyed order end with the          *)
(* delimiter, with the bytes before it and no further position consumed;   *)
(* it raises delimiter-not-found exactly when no boundary does, after      *)
(* consuming all N positions.                                              *)
(***************************************************************************)
C9_TerminationRule ==
    (ExtractInOrder /\ GoodPassword(res.password)) =>
        LET f == fs[res.path]
            keyed == KeyedOrder(f, res.password)
            ends == Boundaries(f, keyed)
            first == CHOOSE m \in ends : \A x \in ends : m <= x
        IN  IF ends = {}
            THEN /\ res.out.err = E_NO_DELIMITER
                 /\ res.out.consumed = Len(keyed)
            ELSE /\ res.out.err = OK
                 /\ res.out.consumed = 8 * first
                 /\ res.out.val = [m \in 1..(first - 9) |-> ByteRead(f, keyed, m)]

C9_Witness ==
    /\ ExtractInOrder
    /\ res.out.err = OK
    /\ Len(res.out.val) > 0
    /\ res.out.consumed < Len(Eligible(fs[res.path]))

(***************************************************************************)
(* C10.  Degenerate audio: as claimed, calculate_capacity, hide_data and   *)
(* extract_data on an all-zero carrier fail with the capacity error of the *)
(* selection instead of working on a position list.                        *)
(***************************************************************************)
C10_SilenceRejected ==
    /\ (res.op = "capacity" /\ IsWavPath(res.path) /\ AllZero(fs[res.path]))
          => res.out.err \in CapacityErrors
    /\ (res.op = "extract" /\ IsWavPath(res.path) /\ AllZero(fs[res.path]))
          => res.out.err \in CapacityErrors
    /\ (res.op = "hide" /\ IsWavPath(res.in_path) /\ IsWavPath(res.out_path)
            /\ res.in_path # res.out_path /\ res.payload # <<>>
            /\ AllZero(prev[res.in_path]))
          => res.err \in CapacityErrors

(***************************************************************************)
(* C11.  The keyed sequence is a bijection onto the eligible positions:    *)
(* for a non-empty list of N distinct positions and a valid password the   *)
(* generator yields N values, each position of the list exactly once and   *)
(* nothing else, and the caller's list is left in its order.               *)
(***************************************************************************)
C11_KeyedBijection ==
    (lastRun # NoRun /\ GoodPassword(lastRun.password) /\ lastRun.before # <<>>) =>
        /\ lastRun.out.err = OK
        /\ Len(lastRun.out.val) = Len(lastRun.before)
        /\ \A p \in Range(lastRun.before) :
              Cardinality({k \in 1..Len(lastRun.out.val) : lastRun.out.val[k] = p}) = 1
        /\ Range(lastRun.out.val) \subseteq Range(lastRun.before)
        /\ lastRun.after = lastRun.before

C11_Witness ==
    /\ lastRun # NoRun
    /\ lastRun.out.err = OK
    /\ Len(lastRun.before) = MaxKeyIndex + 1
    /\ lastRun.out.val # lastRun.before
    /\ lastRun.out.val[1] # lastRun.before[Len(lastRun.before)]

(***************************************************************************)
(* C12.  Capacity and hide agree: on a readable carrier, with distinct     *)
(* .wav paths, a non-empty payload P and a valid password, hide_data       *)
(* succeeds exactly when len(P) <= calculate_capacity(carrier); and when   *)
(* (len(P)+9)*8 exceeds the sample slots (frames * channels) or the        *)
(* eligible count N, it fails with the capacity error whatever the         *)
(* password is, and writes nothing.                                        *)
(***************************************************************************)
C12_CapacityAgrees ==
    HideOnCarrier =>
        LET carrier == prev[res.in_path]
            required_bits == (Len(res.payload) + 9) * 8
            slots == carrier.nframes * carrier.nchannels
            N == Len(Eligible(carrier))
            capacity == calculate_capacity(prev, res.in_path)
        IN  /\ capacity.err = OK
            /\ GoodPassword(res.password)
                  => (res.err = OK <=> Len(res.payload) <= capacity.val)
            /\ required_bits > slots
                  => (res.err = E_TOO_LARGE /\ fs = prev)
            /\ (required_bits <= slots /\ required_bits > N)
                  => (res.err = E_TOO_LARGE_ENERGY /\ fs = prev)

C12_Witness ==
    /\ HideOnCarrier
    /\ ~GoodPassword(res.password)
    /\ res.err = E_TOO_LARGE_ENERGY
    /\ Len(res.payload) > calculate_capacity(prev, res.in_path).val
    /\ calculate_capacity(prev, res.in_path).val > 0

(***************************************************************************)
(* C13.  What extract_data returns is free of the delimiter: the result    *)
(* followed by the delimiter contains the delimiter once, at its end.  So  *)
(* for a payload P hidden under W, extract_data with W returns the bytes   *)
(* of P ++ delimiter before the first point where that stream ends with    *)
(* the delimiter, which is not P when P spells the delimiter earlier.      *)
(***************************************************************************)
C13_ResultDelimiterFree ==
    /\ (res.op = "extract" /\ res.out.err = OK)
          => DelimiterStarts(res.out.val \o DELIMITER) = {Len(res.out.val) + 1}
    /\ (/\ res.op = "extract"
        /\ embedded[res.path] # NotEmbedded
        /\ embedded[res.path].password = res.password)
          => LET stream == embedded[res.path].payload \o DELIMITER
                 first == CHOOSE k \in DelimiterStarts(stream) :
                              \A x \in DelimiterStarts(stream) : k <= x
             IN  /\ res.out.err = OK
                 /\ res.out.val = SubSeq(stream, 1, first - 1)

C13_Witness ==
    /\ res.op = "extract"
    /\ res.out.err = OK
    /\ embedded[res.path] # NotEmbedded
    /\ embedded[res.path].password = res.password
    /\ embedded[res.path].payload = PayloadMid
    /\ res.out.val = <<120>>

(***************************************************************************)
(* C14.  Last hide wins: after any chain of successful hide_data calls     *)
(* with delimiter-free payloads, extract_data with the last call's         *)
(* password returns the last call's payload; and hiding the same payload   *)
(* under the same password in a file that already carries it yields a      *)
(* byte-identical buffer.                                                  *)
(***************************************************************************)
C14_LastHideWins ==
    /\ (/\ res.op = "extract"
        /\ embedded[res.path] # NotEmbedded
        /\ embedded[res.path].password = res.password
        /\ DelimiterStarts(embedded[res.path].payload) = {})
          => (res.out.err = OK /\ res.out.val = embedded[res.path].payload)
    /\ (/\ res.op = "hide"
        /\ res.err = OK
        /\ embedded[res.in_path] # NotEmbedded
        /\ embedded[res.in_path].payload = res.payload
        /\ embedded[res.in_path].password = res.password)
          => fs[res.out_path].frames = prev[res.in_path].frames

====
